---- MODULE Spec2Model ----
(***************************************************************************)
(* Unified-diff parsing engine of python_code_review_assistant:            *)
(*   parse_hunk_header, extract_file_path, parse_single_hunk,              *)
(*   parse_unified_diff                     (project/first/solution.py)    *)
(*   parse_pr_diff               (project/changeset_management/webhooks.py)*)
(* and the retry loops around the review API:                              *)
(*   generate_review_with_retry        (project/first/retry_handler.py)    *)
(*   LLMClient.generate_review            (project/first/llm_client.py)    *)
(* Text is a sequence of one-character strings; every string operation of  *)
(* the Python code (strip, split, startswith, slicing, re.match, int) is   *)
(* computed on those characters.                                           *)
(***************************************************************************)
EXTENDS Integers, Sequences, FiniteSets, TLC

VARIABLES
    \* parse_hunk_header
    hdr_src,        \* the pieces the header line under test was written from
    header_line,    \* argument header_line
    hdr_pc,         \* "call" | "done"
    hdr_result,     \* returned tuple (old_start, new_start)
    \* parse_single_hunk
    hunk_src,       \* the pieces the hunk text under test was written from
    hunk_text,      \* argument hunk_text
    hunk_pc,        \* "call" | "loop" | "done"
    lines,          \* local lines
    idx,            \* position of the for loop in lines (1-based)
    old_start,      \* local old_start
    new_start,      \* local new_start
    current_line,   \* local current_line
    diff_lines,     \* local diff_lines
    hunk_ret,       \* returned DiffHunk
    \* parse_pr_diff
    patch_src,      \* the lines the patch text under test was written from
    diff_text,      \* argument diff_text
    pr_pc,          \* "call" | "loop" | "done"
    pr_lines,       \* local lines
    i,              \* local i (0-based, as in the code)
    files,          \* local files: dict kept as a sequence of <<key, value>>
    current_file,   \* local current_file (NoFile stands for None)
    current_diff,   \* local current_diff
    \* extract_file_path
    path_src,       \* the pieces the path header line under test was written from
    path_line,      \* argument header_line
    path_pc,        \* "call" | "done"
    path_result,    \* returned path
    \* parse_unified_diff
    file_src,       \* the lines the file diff under test was written from
    file_text,      \* argument diff_text
    file_pc,        \* "call" | "done"
    file_ret,       \* returned FileDiff
    \* generate_review_with_retry, LLMClient.generate_review
    rt_fn,          \* the function under test
    rt_api,         \* the generation of the openai package that is installed
    max_retries,    \* argument max_retries, self.max_retries
    attempt,        \* loop variable attempt
    rt_pc,          \* "idle" | "loop" | "except" | "returned" | "raised"
    rt_calls,       \* outcomes of the executions of the try block so far
    rt_sleeps,      \* arguments of the time.sleep calls so far
    rt_ret          \* returned value

vars == <<hdr_src, header_line, hdr_pc, hdr_result,
          hunk_src, hunk_text, hunk_pc, lines, idx, old_start, new_start,
          current_line, diff_lines, hunk_ret,
          patch_src, diff_text, pr_pc, pr_lines, i, files, current_file,
          current_diff,
          path_src, path_line, path_pc, path_result,
          file_src, file_text, file_pc, file_ret,
          rt_fn, rt_api, max_retries, attempt, rt_pc, rt_calls, rt_sleeps,
          rt_ret>>

hdr_vars == <<hdr_src, header_line, hdr_pc, hdr_result>>

hunk_vars == <<hunk_src, hunk_text, hunk_pc, lines, idx, old_start, new_start,
               current_line, diff_lines, hunk_ret>>

pr_vars == <<patch_src, diff_text, pr_pc, pr_lines, i, files, current_file,
             current_diff>>

path_vars == <<path_src, path_line, path_pc, path_result>>

file_vars == <<file_src, file_text, file_pc, file_ret>>

retry_vars == <<rt_fn, rt_api, max_retries, attempt, rt_pc, rt_calls,
                rt_sleeps, rt_ret>>

-----------------------------------------------------------------------------
(* Python string primitives                                                *)

\* str.isspace() characters that str.strip() removes and that \s matches
Whitespace == {" ", "\t", "\n", "\r", "\f"}

\* characters matched by \d, with the value int() gives them
Digits == {"0", "1", "2", "3", "4", "5", "6", "7", "8", "9"}

DigitVal(c) ==
    CASE c = "0" -> 0 [] c = "1" -> 1 [] c = "2" -> 2 [] c = "3" -> 3
      [] c = "4" -> 4 [] c = "5" -> 5 [] c = "6" -> 6 [] c = "7" -> 7
      [] c = "8" -> 8 [] c = "9" -> 9

\* int(s) for a non-empty string of decimal digits
RECURSIVE ToInt(_)
ToInt(s) ==
    IF Len(s) = 0 THEN 0
    ELSE 10 * ToInt(SubSeq(s, 1, Len(s) - 1)) + DigitVal(s[Len(s)])

\* s[p-1:] in Python terms: the text from 1-based position p to the end
From(s, p) == SubSeq(s, p, Len(s))

\* does lit occur in s at 1-based position p
HasAt(s, p, lit) ==
    /\ p >= 1
    /\ p + Len(lit) - 1 <= Len(s)
    /\ SubSeq(s, p, p + Len(lit) - 1) = lit

\* str.startswith
StartsWith(s, lit) == HasAt(s, 1, lit)

\* str.strip(): drop leading and trailing whitespace
RECURSIVE LStrip(_)
LStrip(s) ==
    IF Len(s) > 0 /\ s[1] \in Whitespace THEN LStrip(Tail(s)) ELSE s

RECURSIVE RStrip(_)
RStrip(s) ==
    IF Len(s) > 0 /\ s[Len(s)] \in Whitespace
    THEN RStrip(SubSeq(s, 1, Len(s) - 1)) ELSE s

Strip(s) == RStrip(LStrip(s))

\* str.split('\n'): the pieces between the newlines, always at least one
Split(s) ==
    LET nl == {p \in 1..Len(s) : s[p] = "\n"}
        \* position of the k-th newline; 0 before the first, Len(s)+1 after
        \* the last
        At(k) == IF k = 0 THEN 0
                 ELSE IF k > Cardinality(nl) THEN Len(s) + 1
                 ELSE CHOOSE p \in nl : Cardinality({q \in nl : q < p}) = k - 1
    IN  [k \in 1..(Cardinality(nl) + 1) |-> SubSeq(s, At(k - 1) + 1, At(k) - 1)]

\* '\n'.join(parts)
RECURSIVE Join(_)
Join(parts) ==
    IF Len(parts) = 0 THEN <<>>
    ELSE IF Len(parts) = 1 THEN parts[1]
    ELSE parts[1] \o <<"\n">> \o Join(Tail(parts))

-----------------------------------------------------------------------------
(* parse_hunk_header: re.match(r'@@ -(\d+)(?:,\d+)? \+(\d+)(?:,\d+)? @@')  *)

\* a regex position: 1-based index of the next character, 0 = no match
NoMatch == 0

\* literal text at position p
Lit(s, p, lit) ==
    IF p # NoMatch /\ HasAt(s, p, lit) THEN p + Len(lit) ELSE NoMatch

\* \d+ is greedy and is followed by a non-digit in the pattern, so it takes
\* the maximal run of digits; DigitsEnd is the position after that run
DigitsEnd(s, p) ==
    LET stops == {e \in p..(Len(s) + 1) : e = Len(s) + 1 \/ s[e] \notin Digits}
    IN  CHOOSE e \in stops : \A f \in stops : e <= f

\* (\d+)
Number(s, p) ==
    IF p # NoMatch /\ DigitsEnd(s, p) > p THEN DigitsEnd(s, p) ELSE NoMatch

\* (?:,\d+)?
OptCount(s, p) ==
    IF p = NoMatch THEN NoMatch
    ELSE IF Number(s, Lit(s, p, <<",">>)) # NoMatch
         THEN Number(s, Lit(s, p, <<",">>))
         ELSE p

\* the positions of the match of the whole pattern, anchored at the start
HeaderMatch(s) ==
    LET a1 == Lit(s, 1, <<"@", "@", " ", "-">>)
        a2 == Number(s, a1)
        a3 == OptCount(s, a2)
        c1 == Lit(s, a3, <<" ", "+">>)
        c2 == Number(s, c1)
        c3 == OptCount(s, c2)
        e  == Lit(s, c3, <<" ", "@", "@">>)
    IN  [ok |-> e # NoMatch, g1 |-> <<a1, a2>>, g2 |-> <<c1, c2>>]

\* the same pattern under re.search: the match may start anywhere
HeaderSearch(s) ==
    LET starts == {p \in 1..Len(s) : HeaderMatch(From(s, p)).ok}
        p0 == IF starts = {} THEN 1
              ELSE CHOOSE p \in starts : \A q \in starts : p <= q
    IN  [ok |-> starts # {},
         g1 |-> <<HeaderMatch(From(s, p0)).g1[1] + p0 - 1,
                  HeaderMatch(From(s, p0)).g1[2] + p0 - 1>>,
         g2 |-> <<HeaderMatch(From(s, p0)).g2[1] + p0 - 1,
                  HeaderMatch(From(s, p0)).g2[2] + p0 - 1>>]

\* parse_hunk_header with the counts read as the starts
parse_hunk_header_counts(s) ==
    LET m == HeaderMatch(s)
    IN  IF m.ok /\ OptCount(s, m.g1[2]) > m.g1[2]
        THEN <<ToInt(SubSeq(s, m.g1[2] + 1, OptCount(s, m.g1[2]) - 1)),
               ToInt(SubSeq(s, m.g2[1], m.g2[2] - 1))>>
        ELSE IF m.ok
        THEN <<ToInt(SubSeq(s, m.g1[1], m.g1[2] - 1)),
               ToInt(SubSeq(s, m.g2[1], m.g2[2] - 1))>>
        ELSE <<1, 1>>

\* parse_hunk_header using re.search instead of re.match
parse_hunk_header_search(s) ==
    LET m == HeaderSearch(s)
    IN  IF m.ok
        THEN <<ToInt(SubSeq(s, m.g1[1], m.g1[2] - 1)),
               ToInt(SubSeq(s, m.g2[1], m.g2[2] - 1))>>
        ELSE <<1, 1>>

parse_hunk_header(s) ==
    LET m == HeaderMatch(s)
    IN  IF m.ok
        THEN <<ToInt(SubSeq(s, m.g1[1], m.g1[2] - 1)),
               ToInt(SubSeq(s, m.g2[1], m.g2[2] - 1))>>
        ELSE <<1, 1>>

\* int(s) raises ValueError for a digit string longer than the limit of the
\* interpreter (sys.int_info.default_max_str_digits, Python 3.11)
IntMaxStrDigits == 4300

\* parse_hunk_header(s) raises: the pattern matches and one int() call gets
\* more digits than it converts
parse_hunk_header_raises(s) ==
    LET m == HeaderMatch(s)
    IN  /\ m.ok
        /\ \/ m.g1[2] - m.g1[1] > IntMaxStrDigits
           \/ m.g2[2] - m.g2[1] > IntMaxStrDigits

-----------------------------------------------------------------------------
(* Header lines under test: a line is written from pieces, each piece      *)
(* either as the format `@@ -a[,b] +c[,d] @@` wants it or damaged.         *)

HdrPre == {<<>>, <<"x">>}

HdrOpen == {<<"@", "@", " ">>, <<"@", " ">>, <<>>}

HdrOldRange ==
    {[text |-> <<"-", "1", "0", ",", "6">>, start |-> 10, ok |-> TRUE],
     [text |-> <<"-", "1", "0">>,           start |-> 10, ok |-> TRUE],
     [text |-> <<"-", "0", "7", ",", "3">>, start |-> 7,  ok |-> TRUE],
     [text |-> <<"-", "0", ",", "0">>,      start |-> 0,  ok |-> TRUE],
     \* a start of IntMaxStrDigits + 1 digits, which int() does not convert
     [text |-> <<"-">> \o [k \in 1..(IntMaxStrDigits + 1) |-> "1"],
      start |-> 0, ok |-> TRUE],
     [text |-> <<"1", "0", ",", "6">>,      start |-> 10, ok |-> FALSE],
     [text |-> <<>>,                        start |-> 0,  ok |-> FALSE]}

HdrSep == {<<" ">>, <<>>}

HdrNewRange ==
    {[text |-> <<"+", "1", "1", ",", "7">>, start |-> 11, ok |-> TRUE],
     [text |-> <<"+", "1", "1">>,           start |-> 11, ok |-> TRUE],
     [text |-> <<"+", "2", ",", "1", "2">>, start |-> 2,  ok |-> TRUE],
     [text |-> <<"+", "0", ",", "0">>,      start |-> 0,  ok |-> TRUE],
     [text |-> <<"1", "1", ",", "7">>,      start |-> 11, ok |-> FALSE],
     [text |-> <<>>,                        start |-> 0,  ok |-> FALSE]}

HdrClose == {<<" ", "@", "@">>, <<" ", "@">>, <<>>}

HdrTail == {<<>>, <<" ", "f", "(", ")">>}

HeaderSources ==
    [pre : HdrPre, open : HdrOpen, oldr : HdrOldRange, sep : HdrSep,
     newr : HdrNewRange, close : HdrClose, tail : HdrTail]

RenderHeader(src) ==
    src.pre \o src.open \o src.oldr.text \o src.sep \o src.newr.text
        \o src.close \o src.tail

\* the line begins with `@@ -<a>[,<b>] +<c>[,<d>] @@`
WellFormedHeader(src) ==
    /\ src.pre = <<>>
    /\ src.open = <<"@", "@", " ">>
    /\ src.oldr.ok
    /\ src.sep = <<" ">>
    /\ src.newr.ok
    /\ src.close = <<" ", "@", "@">>

-----------------------------------------------------------------------------
(* Values the variables of a function hold while it is not under test      *)

NoFile == <<"None">>

HdrIdle ==
    /\ hdr_src = [pre |-> <<>>, open |-> <<>>,
                  oldr |-> [text |-> <<>>, start |-> 0, ok |-> FALSE],
                  sep |-> <<>>,
                  newr |-> [text |-> <<>>, start |-> 0, ok |-> FALSE],
                  close |-> <<>>, tail |-> <<>>]
    /\ header_line = <<>>
    /\ hdr_pc = "idle"
    /\ hdr_result = <<>>

HunkIdle ==
    /\ hunk_src = [lead |-> <<>>, kind |-> "nohdr", body |-> <<>>,
                   trail |-> <<>>]
    /\ hunk_text = <<>>
    /\ hunk_pc = "idle"
    /\ lines = <<>>
    /\ idx = 0
    /\ old_start = 0
    /\ new_start = 0
    /\ current_line = 0
    /\ diff_lines = <<>>
    /\ hunk_ret = <<>>

PrIdle ==
    /\ patch_src = <<>>
    /\ diff_text = <<>>
    /\ pr_pc = "idle"
    /\ pr_lines = <<>>
    /\ i = 0
    /\ files = <<>>
    /\ current_file = NoFile
    /\ current_diff = <<>>

PathIdle ==
    /\ path_src = [prefix |-> <<>>, marks |-> 0, path |-> <<>>, meta |-> <<>>]
    /\ path_line = <<>>
    /\ path_pc = "idle"
    /\ path_result = <<>>

FileIdle ==
    /\ file_src = <<>>
    /\ file_text = <<>>
    /\ file_pc = "idle"
    /\ file_ret = <<>>

RetryIdle ==
    /\ rt_fn = "none"
    /\ rt_api = "none"
    /\ max_retries = 0
    /\ attempt = 0
    /\ rt_pc = "idle"
    /\ rt_calls = <<>>
    /\ rt_sleeps = <<>>
    /\ rt_ret = <<>>

-----------------------------------------------------------------------------
(* Specification of parse_hunk_header                                      *)

InitHeader ==
    /\ \E src \in HeaderSources :
          /\ hdr_src = src
          /\ header_line = RenderHeader(src)
    /\ hdr_pc = "call"
    /\ hdr_result = <<>>
    /\ HunkIdle
    /\ RetryIdle
    /\ PrIdle
    /\ PathIdle
    /\ FileIdle

\* the call of parse_hunk_header(header_line)
ParseHunkHeader ==
    /\ hdr_pc = "call"
    /\ ~parse_hunk_header_raises(header_line)
    /\ hdr_result' = parse_hunk_header(header_line)
    /\ hdr_pc' = "done"
    /\ UNCHANGED <<hdr_src, header_line>>
    /\ UNCHANGED hunk_vars
    /\ UNCHANGED retry_vars
    /\ UNCHANGED pr_vars
    /\ UNCHANGED path_vars
    /\ UNCHANGED file_vars

\* the call of parse_hunk_header(header_line) ends with the ValueError of
\* int()
ParseHunkHeaderRaises ==
    /\ hdr_pc = "call"
    /\ parse_hunk_header_raises(header_line)
    /\ hdr_pc' = "raised"
    /\ UNCHANGED <<hdr_src, header_line, hdr_result>>
    /\ UNCHANGED hunk_vars
    /\ UNCHANGED retry_vars
    /\ UNCHANGED pr_vars
    /\ UNCHANGED path_vars
    /\ UNCHANGED file_vars

NextHeader ==
    \/ ParseHunkHeader
    \/ ParseHunkHeaderRaises

SpecHeader == InitHeader /\ [][NextHeader]_vars

\* C2: for every line that begins with `@@ -<a>[,<b>] +<c>[,<d>] @@`,
\* whatever the counts and whatever follows the closing `@@`,
\* parse_hunk_header returns (a, c).
C2_HeaderStarts ==
    (hdr_pc = "done" /\ WellFormedHeader(hdr_src))
        => hdr_result = <<hdr_src.oldr.start, hdr_src.newr.start>>

\* a well-formed header with both counts and trailing text has been parsed
C2_Witness ==
    /\ hdr_pc = "done"
    /\ WellFormedHeader(hdr_src)
    /\ hdr_src.oldr.text = <<"-", "1", "0", ",", "6">>
    /\ hdr_src.newr.text = <<"+", "1", "1", ",", "7">>
    /\ hdr_src.tail # <<>>
    /\ hdr_result = <<10, 11>>

\* C3: for every line that does not match the hunk-header pattern (missing
\* `@@`, missing `-` or `+` range, text before the `@@`, empty line)
\* parse_hunk_header returns (1, 1).
C3_MalformedDefault ==
    (hdr_pc = "done" /\ ~WellFormedHeader(hdr_src)) => hdr_result = <<1, 1>>

\* a line with text before an otherwise well-formed header has been parsed
C3_Witness ==
    /\ hdr_pc = "done"
    /\ hdr_src.pre # <<>>
    /\ WellFormedHeader([hdr_src EXCEPT !.pre = <<>>])
    /\ hdr_result = <<1, 1>>

\* C21: fail-soft: parse_hunk_header, on which parse_single_hunk and
\* parse_unified_diff rest, returns a value for every input line and never
\* raises.
C21_NeverRaises == hdr_pc # "raised"

\* C22: both numbers that parse_hunk_header returns are at least 1, for
\* every input line, headers of added or deleted files included.
C22_StartsPositive ==
    hdr_pc = "done" => (hdr_result[1] >= 1 /\ hdr_result[2] >= 1)

-----------------------------------------------------------------------------
(* parse_single_hunk                                                       *)

DiffLine(n, c, t) == [line_number |-> n, content |-> c, change_type |-> t]

DiffHunk(o, n, ls) == [old_start |-> o, new_start |-> n, lines |-> ls]

\* lines = hunk_text.strip().split('\n')
HunkLines(text) == Split(Strip(text))

\* the test `not lines or not lines[0].startswith('@@')` always passing
HasHunkHeader_always(ls) == TRUE

\* negation of `not lines or not lines[0].startswith('@@')`
HasHunkHeader(ls) == Len(ls) > 0 /\ StartsWith(ls[1], <<"@", "@">>)

\* the early return: DiffHunk(1, 1, [])
HunkNoHeader ==
    /\ hunk_pc = "call"
    /\ ~HasHunkHeader(HunkLines(hunk_text))
    /\ lines' = HunkLines(hunk_text)
    /\ hunk_ret' = DiffHunk(1, 1, <<>>)
    /\ hunk_pc' = "done"
    /\ UNCHANGED <<hunk_src, hunk_text, idx, old_start, new_start,
                   current_line, diff_lines>>
    /\ UNCHANGED hdr_vars
    /\ UNCHANGED retry_vars
    /\ UNCHANGED pr_vars
    /\ UNCHANGED path_vars
    /\ UNCHANGED file_vars

\* a hunk whose header does not match the pattern returned empty
HunkHeader_strict ==
    /\ hunk_pc = "call"
    /\ HasHunkHeader(HunkLines(hunk_text))
    /\ lines' = HunkLines(hunk_text)
    /\ IF HeaderMatch(lines'[1]).ok
       THEN /\ old_start' = parse_hunk_header(lines'[1])[1]
            /\ new_start' = parse_hunk_header(lines'[1])[2]
            /\ diff_lines' = <<>>
            /\ current_line' = new_start'
            /\ idx' = 2
            /\ hunk_pc' = "loop"
            /\ hunk_ret' = hunk_ret
       ELSE /\ hunk_ret' = DiffHunk(1, 1, <<>>)
            /\ hunk_pc' = "done"
            /\ UNCHANGED <<old_start, new_start, diff_lines, current_line,
                           idx>>
    /\ UNCHANGED <<hunk_src, hunk_text>>
    /\ UNCHANGED hdr_vars
    /\ UNCHANGED retry_vars
    /\ UNCHANGED pr_vars
    /\ UNCHANGED path_vars
    /\ UNCHANGED file_vars

\* the header is parsed and the loop over lines[1:] is entered
HunkHeader ==
    /\ hunk_pc = "call"
    /\ HasHunkHeader(HunkLines(hunk_text))
    /\ lines' = HunkLines(hunk_text)
    /\ old_start' = parse_hunk_header(lines'[1])[1]
    /\ new_start' = parse_hunk_header(lines'[1])[2]
    /\ diff_lines' = <<>>
    /\ current_line' = new_start'
    /\ idx' = 2
    /\ hunk_pc' = "loop"
    /\ UNCHANGED <<hunk_src, hunk_text, hunk_ret>>
    /\ UNCHANGED hdr_vars
    /\ UNCHANGED retry_vars
    /\ UNCHANGED pr_vars
    /\ UNCHANGED path_vars
    /\ UNCHANGED file_vars

\* `if not line: continue`
HunkSkipEmpty ==
    /\ hunk_pc = "loop"
    /\ idx <= Len(lines)
    /\ lines[idx] = <<>>
    /\ idx' = idx + 1
    /\ UNCHANGED <<hunk_src, hunk_text, hunk_pc, lines, old_start, new_start,
                   current_line, diff_lines, hunk_ret>>
    /\ UNCHANGED hdr_vars
    /\ UNCHANGED retry_vars
    /\ UNCHANGED pr_vars
    /\ UNCHANGED path_vars
    /\ UNCHANGED file_vars

\* `if line.startswith('+')`
HunkAdded ==
    /\ hunk_pc = "loop"
    /\ idx <= Len(lines)
    /\ lines[idx] # <<>>
    /\ StartsWith(lines[idx], <<"+">>)
    /\ diff_lines' = Append(diff_lines,
                            DiffLine(current_line, From(lines[idx], 2), "added"))
    /\ current_line' = current_line + 1
    /\ idx' = idx + 1
    /\ UNCHANGED <<hunk_src, hunk_text, hunk_pc, lines, old_start, new_start,
                   hunk_ret>>
    /\ UNCHANGED hdr_vars
    /\ UNCHANGED retry_vars
    /\ UNCHANGED pr_vars
    /\ UNCHANGED path_vars
    /\ UNCHANGED file_vars

\* the removed branch numbering the line and advancing the counter
HunkRemoved_numbered ==
    /\ hunk_pc = "loop"
    /\ idx <= Len(lines)
    /\ lines[idx] # <<>>
    /\ ~StartsWith(lines[idx], <<"+">>)
    /\ StartsWith(lines[idx], <<"-">>)
    /\ diff_lines' = Append(diff_lines,
                            DiffLine(current_line, From(lines[idx], 2),
                                     "removed"))
    /\ current_line' = current_line + 1
    /\ idx' = idx + 1
    /\ UNCHANGED <<hunk_src, hunk_text, hunk_pc, lines, old_start, new_start,
                   hunk_ret>>
    /\ UNCHANGED hdr_vars
    /\ UNCHANGED retry_vars
    /\ UNCHANGED pr_vars
    /\ UNCHANGED path_vars
    /\ UNCHANGED file_vars

\* `elif line.startswith('-')`
HunkRemoved ==
    /\ hunk_pc = "loop"
    /\ idx <= Len(lines)
    /\ lines[idx] # <<>>
    /\ ~StartsWith(lines[idx], <<"+">>)
    /\ StartsWith(lines[idx], <<"-">>)
    /\ diff_lines' = Append(diff_lines,
                            DiffLine(0, From(lines[idx], 2), "removed"))
    /\ idx' = idx + 1
    /\ UNCHANGED <<hunk_src, hunk_text, hunk_pc, lines, old_start, new_start,
                   current_line, hunk_ret>>
    /\ UNCHANGED hdr_vars
    /\ UNCHANGED retry_vars
    /\ UNCHANGED pr_vars
    /\ UNCHANGED path_vars
    /\ UNCHANGED file_vars

\* `elif line.startswith(' ')`
HunkContext ==
    /\ hunk_pc = "loop"
    /\ idx <= Len(lines)
    /\ lines[idx] # <<>>
    /\ ~StartsWith(lines[idx], <<"+">>)
    /\ ~StartsWith(lines[idx], <<"-">>)
    /\ StartsWith(lines[idx], <<" ">>)
    /\ diff_lines' = Append(diff_lines,
                            DiffLine(current_line, From(lines[idx], 2),
                                     "context"))
    /\ current_line' = current_line + 1
    /\ idx' = idx + 1
    /\ UNCHANGED <<hunk_src, hunk_text, hunk_pc, lines, old_start, new_start,
                   hunk_ret>>
    /\ UNCHANGED hdr_vars
    /\ UNCHANGED retry_vars
    /\ UNCHANGED pr_vars
    /\ UNCHANGED path_vars
    /\ UNCHANGED file_vars

\* the skipped line advancing the line counter
HunkSkipOther_counting ==
    /\ hunk_pc = "loop"
    /\ idx <= Len(lines)
    /\ lines[idx] # <<>>
    /\ ~StartsWith(lines[idx], <<"+">>)
    /\ ~StartsWith(lines[idx], <<"-">>)
    /\ ~StartsWith(lines[idx], <<" ">>)
    /\ idx' = idx + 1
    /\ current_line' = current_line + 1
    /\ UNCHANGED <<hunk_src, hunk_text, hunk_pc, lines, old_start, new_start,
                   diff_lines, hunk_ret>>
    /\ UNCHANGED hdr_vars
    /\ UNCHANGED retry_vars
    /\ UNCHANGED pr_vars
    /\ UNCHANGED path_vars
    /\ UNCHANGED file_vars

\* a non-empty line that starts with none of `+`, `-`, space: no branch taken
HunkSkipOther ==
    /\ hunk_pc = "loop"
    /\ idx <= Len(lines)
    /\ lines[idx] # <<>>
    /\ ~StartsWith(lines[idx], <<"+">>)
    /\ ~StartsWith(lines[idx], <<"-">>)
    /\ ~StartsWith(lines[idx], <<" ">>)
    /\ idx' = idx + 1
    /\ UNCHANGED <<hunk_src, hunk_text, hunk_pc, lines, old_start, new_start,
                   current_line, diff_lines, hunk_ret>>
    /\ UNCHANGED hdr_vars
    /\ UNCHANGED retry_vars
    /\ UNCHANGED pr_vars
    /\ UNCHANGED path_vars
    /\ UNCHANGED file_vars

\* `return DiffHunk(old_start, new_start, diff_lines)`
HunkReturn ==
    /\ hunk_pc = "loop"
    /\ idx > Len(lines)
    /\ hunk_ret' = DiffHunk(old_start, new_start, diff_lines)
    /\ hunk_pc' = "done"
    /\ UNCHANGED <<hunk_src, hunk_text, lines, idx, old_start, new_start,
                   current_line, diff_lines>>
    /\ UNCHANGED hdr_vars
    /\ UNCHANGED retry_vars
    /\ UNCHANGED pr_vars
    /\ UNCHANGED path_vars
    /\ UNCHANGED file_vars

-----------------------------------------------------------------------------
(* Hunk texts under test: optional whitespace, a header line, body lines,  *)
(* an optional final newline                                               *)

MaxBody == 3

BodyLines ==
    {<<"+", "a">>,          \* added
     <<"+", "b", " ">>,     \* added, content ends with a space
     <<"-", "c">>,          \* removed
     <<" ", "d">>,          \* context
     <<" ">>,               \* context, blank line of the file
     <<>>,                  \* empty line
     <<"\\", "N">>}         \* `\ No newline at end of file` marker

RECURSIVE SeqsUpTo(_, _)
SeqsUpTo(S, n) ==
    IF n = 0 THEN {<<>>}
    ELSE SeqsUpTo(S, n - 1)
         \cup {Append(q, x) : q \in {r \in SeqsUpTo(S, n - 1) : Len(r) = n - 1},
                              x \in S}

HunkLeads == {<<>>, <<"\n">>, <<" ">>}

HunkTrails == {<<>>, <<"\n">>}

HunkKinds == {"counted", "plain", "bad", "nohdr"}

HunkSources ==
    [lead : HunkLeads, kind : HunkKinds, body : SeqsUpTo(BodyLines, MaxBody),
     trail : HunkTrails]

\* decimal digits of a natural number
RECURSIVE ToDigits(_)
ToDigits(n) ==
    LET d == CHOOSE c \in Digits : DigitVal(c) = n % 10
    IN  IF n < 10 THEN <<d>> ELSE Append(ToDigits(n \div 10), d)

IsNewSide(l) == Len(l) > 0 /\ l[1] \in {"+", " "}

IsOldSide(l) == Len(l) > 0 /\ l[1] \in {"-", " "}

IsClassified(l) == Len(l) > 0 /\ l[1] \in {"+", "-", " "}

NewCount(body) == Len(SelectSeq(body, IsNewSide))

OldCount(body) == Len(SelectSeq(body, IsOldSide))

DeclaredOldStart(src) == IF src.kind = "bad" THEN 1 ELSE 10

DeclaredNewStart(src) == IF src.kind = "bad" THEN 1 ELSE 11

HunkHeaderText(src) ==
    CASE src.kind = "counted" ->
            <<"@", "@", " ", "-", "1", "0", ",">>
                \o ToDigits(OldCount(src.body))
                \o <<" ", "+", "1", "1", ",">>
                \o ToDigits(NewCount(src.body)) \o <<" ", "@", "@">>
      [] src.kind = "plain" ->
            <<"@", "@", " ", "-", "1", "0", " ", "+", "1", "1", " ", "@", "@">>
      [] src.kind = "bad" -> <<"@", "@", " ", "b", "a", "d">>
      [] src.kind = "nohdr" -> <<>>

RenderHunk(src) ==
    src.lead
        \o Join(IF src.kind = "nohdr" THEN src.body
                ELSE <<HunkHeaderText(src)>> \o src.body)
        \o src.trail

\* a hunk as a diff tool writes it: the header with its counts first, every
\* body line prefixed by `+`, `-` or space, or a `\` marker
ValidHunk(src) ==
    /\ src.lead = <<>>
    /\ src.kind = "counted"
    /\ \A k \in 1..Len(src.body) : src.body[k] # <<>>

-----------------------------------------------------------------------------
(* Specification of parse_single_hunk                                      *)

InitHunk ==
    /\ \E src \in HunkSources :
          /\ hunk_src = src
          /\ hunk_text = RenderHunk(src)
    /\ hunk_pc = "call"
    /\ lines = <<>>
    /\ idx = 0
    /\ old_start = 0
    /\ new_start = 0
    /\ current_line = 0
    /\ diff_lines = <<>>
    /\ hunk_ret = <<>>
    /\ HdrIdle
    /\ RetryIdle
    /\ PrIdle
    /\ PathIdle
    /\ FileIdle

NextHunk ==
    \/ HunkNoHeader
    \/ HunkHeader
    \/ HunkSkipEmpty
    \/ HunkAdded
    \/ HunkRemoved
    \/ HunkContext
    \/ HunkSkipOther
    \/ HunkReturn

SpecHunk == InitHunk /\ [][NextHunk]_vars

\* the added and context lines of a parsed hunk, in order
NewSideLines(ls) == SelectSeq(ls, LAMBDA d : d.change_type # "removed")

\* C1: the k-th added or context line of the returned hunk has line_number
\* new_start + k - 1, new_start being the value of the header; every removed
\* line has line_number 0 and does not advance the numbering.
C1_LineNumbering ==
    (hunk_pc = "done" /\ hunk_src.kind # "nohdr") =>
        /\ hunk_ret.new_start = DeclaredNewStart(hunk_src)
        /\ \A j \in 1..Len(hunk_ret.lines) :
              hunk_ret.lines[j].line_number =
                 IF hunk_ret.lines[j].change_type = "removed" THEN 0
                 ELSE hunk_ret.new_start
                      + Len(NewSideLines(SubSeq(hunk_ret.lines, 1, j))) - 1

\* a hunk headed +11 whose first line is numbered 11 and whose line after a
\* removed line is numbered 12
C1_Witness ==
    /\ hunk_pc = "done"
    /\ hunk_src.kind = "counted"
    /\ Len(hunk_ret.lines) = 3
    /\ hunk_ret.lines[1].line_number = 11
    /\ hunk_ret.lines[2].change_type = "removed"
    /\ hunk_ret.lines[3].line_number = 12

\* what the body lines say: the classified lines in source order, each with
\* its kind and the line without its first character
RECURSIVE ExpectedLines(_)
ExpectedLines(body) ==
    IF Len(body) = 0 THEN <<>>
    ELSE IF ~IsClassified(Head(body)) THEN ExpectedLines(Tail(body))
    ELSE <<[content |-> Tail(Head(body)),
            change_type |-> CASE Head(body)[1] = "+" -> "added"
                              [] Head(body)[1] = "-" -> "removed"
                              [] Head(body)[1] = " " -> "context"]>>
         \o ExpectedLines(Tail(body))

\* kind and content of the recorded lines
RecordedLines(ls) ==
    [j \in 1..Len(ls) |->
        [content |-> ls[j].content, change_type |-> ls[j].change_type]]

\* C4: the body lines are recorded in source order, `+` as added, `-` as
\* removed, space as context, and the content of each is the line with
\* exactly its one-character prefix removed, the last line included.
C4_BodyRecorded ==
    (hunk_pc = "done" /\ hunk_src.kind # "nohdr") =>
        RecordedLines(hunk_ret.lines) = ExpectedLines(hunk_src.body)

\* C5: for every valid single-hunk diff whose header gives a new_count, the
\* number of added plus context lines recorded equals new_count.
C5_NewCount ==
    (hunk_pc = "done" /\ ValidHunk(hunk_src)) =>
        Len(NewSideLines(hunk_ret.lines)) = NewCount(hunk_src.body)

\* the lines of the new file that the hunk covers
NewFileSlice(body) ==
    LET side == SelectSeq(body, IsNewSide)
    IN  [k \in 1..Len(side) |-> Tail(side[k])]

\* C6: for every valid hunk the contents of the added and context lines, in
\* order, are exactly the lines of the new-file slice the hunk covers.
C6_RoundTrip ==
    (hunk_pc = "done" /\ ValidHunk(hunk_src)) =>
        LET side == NewSideLines(hunk_ret.lines)
        IN  [k \in 1..Len(side) |-> side[k].content]
               = NewFileSlice(hunk_src.body)

\* the first line of a text
FirstLine(text) == Split(text)[1]

\* C7 as stated: DiffHunk(1, 1, []) is returned whenever the text is empty,
\* is only whitespace, or has a first line that does not start with `@@`.
C7_FirstLineNotHeader ==
    (/\ hunk_pc = "done"
     /\ \/ hunk_text = <<>>
        \/ \A k \in 1..Len(hunk_text) : hunk_text[k] \in Whitespace
        \/ ~StartsWith(FirstLine(hunk_text), <<"@", "@">>))
        => hunk_ret = DiffHunk(1, 1, <<>>)

\* C7 amended: DiffHunk(1, 1, []) is returned whenever the text without its
\* leading and trailing whitespace is empty or has a first line that does
\* not start with `@@`, whatever body lines follow.
C7_StrippedNotHeader ==
    (/\ hunk_pc = "done"
     /\ \/ hunk_src.kind = "nohdr"
        \/ ~StartsWith(FirstLine(Strip(hunk_text)), <<"@", "@">>))
        => hunk_ret = DiffHunk(1, 1, <<>>)

\* a text with no header whose second and third lines are body lines
C7_Witness ==
    /\ hunk_pc = "done"
    /\ hunk_src.kind = "nohdr"
    /\ Len(hunk_src.body) = 3
    /\ IsClassified(hunk_src.body[2])
    /\ IsClassified(hunk_src.body[3])
    /\ hunk_ret = DiffHunk(1, 1, <<>>)

\* C30: a hunk whose first line starts with `@@` but does not match the
\* header pattern is not discarded: it gets old_start = 1 and new_start = 1,
\* and its body lines are classified and numbered from 1.
C30_BadHeaderKept ==
    (hunk_pc = "done" /\ hunk_src.kind = "bad") =>
        /\ hunk_ret.old_start = 1
        /\ hunk_ret.new_start = 1
        /\ Len(hunk_ret.lines) = Len(SelectSeq(Tail(lines), IsClassified))
        /\ \A j \in 1..Len(hunk_ret.lines) :
              /\ hunk_ret.lines[j].change_type
                    = LET c == SelectSeq(Tail(lines), IsClassified)[j][1]
                      IN  IF c = "+" THEN "added"
                          ELSE IF c = "-" THEN "removed" ELSE "context"
              /\ hunk_ret.lines[j].line_number
                    = IF hunk_ret.lines[j].change_type = "removed" THEN 0
                      ELSE Len(NewSideLines(SubSeq(hunk_ret.lines, 1, j)))

\* under the header `@@ bad` an added, a removed and a context line have
\* been numbered 1, 0 and 2
C30_Witness ==
    /\ hunk_pc = "done"
    /\ hunk_src.kind = "bad"
    /\ hunk_src.body = <<<<"+", "a">>, <<"-", "c">>, <<" ", "d">>>>
    /\ hunk_ret.old_start = 1
    /\ hunk_ret.new_start = 1
    /\ Len(hunk_ret.lines) = 3
    /\ hunk_ret.lines[1].line_number = 1
    /\ hunk_ret.lines[2].line_number = 0
    /\ hunk_ret.lines[3].line_number = 2

\* C24: a body line that begins with none of `+`, `-` and space (an empty
\* line, a `\ No newline at end of file` marker) produces no DiffLine and
\* leaves the running line counter unchanged; the returned hunk has one
\* DiffLine per other body line.
C24_SkippedLines ==
    [][/\ (/\ hunk_pc = "loop"
           /\ idx <= Len(lines)
           /\ ~IsClassified(lines[idx])) =>
              /\ idx' = idx + 1
              /\ diff_lines' = diff_lines
              /\ current_line' = current_line
       /\ (hunk_pc = "loop" /\ hunk_pc' = "done") =>
              Len(hunk_ret'.lines) = Len(SelectSeq(Tail(lines), IsClassified))
      ]_vars

\* a hunk headed +11 with a marker line between two added lines, which are
\* numbered 11 and 12
C24_Witness ==
    /\ hunk_pc = "done"
    /\ hunk_src.kind = "plain"
    /\ hunk_src.lead = <<>>
    /\ Len(hunk_src.body) = 3
    /\ hunk_src.body[1] = <<"+", "a">>
    /\ hunk_src.body[2] = <<"\\", "N">>
    /\ hunk_src.body[3] = <<"+", "a">>
    /\ Len(hunk_ret.lines) = 2
    /\ hunk_ret.lines[1].line_number = 11
    /\ hunk_ret.lines[2].line_number = 12

-----------------------------------------------------------------------------
(* parse_pr_diff                                                           *)

\* the least position in ps, or NoMatch when ps is empty
MinPos(ps) == IF ps = {} THEN NoMatch ELSE CHOOSE p \in ps : \A q \in ps : p <= q

S_DiffGit == <<"d", "i", "f", "f", " ", "-", "-", "g", "i", "t", " ", "a", "/">>

S_B == <<" ", "b", "/">>

S_BinaryFiles ==
    <<"B", "i", "n", "a", "r", "y", " ", "f", "i", "l", "e", "s", " ", "a", "/">>

S_AndB == <<" ", "a", "n", "d", " ", "b", "/">>

S_Differ == <<" ", "d", "i", "f", "f", "e", "r">>

S_BinaryFile == <<"B", "i", "n", "a", "r", "y", " ", "f", "i", "l", "e">>

DevNull == <<"/", "d", "e", "v", "/", "n", "u", "l", "l">>

\* the end of a lazy group (.+?) that starts at p and is followed by
\* (?:\s|$): the first position after p that holds whitespace or is the end
LazyToSpaceOrEnd(s, p) ==
    IF p = NoMatch \/ p > Len(s) THEN NoMatch
    ELSE MinPos({e \in (p + 1)..(Len(s) + 1) :
                    e = Len(s) + 1 \/ s[e] \in Whitespace})

\* diff_pattern.match(line): ^diff --git a/(.+?) b/(.+?)(?:\s|$)
DiffMatch(s) ==
    LET p1 == Lit(s, 1, S_DiffGit)
        e1 == IF p1 = NoMatch THEN NoMatch
              ELSE MinPos({e \in (p1 + 1)..(Len(s) + 1) :
                      LazyToSpaceOrEnd(s, Lit(s, e, S_B)) # NoMatch})
        p2 == Lit(s, e1, S_B)
        e2 == LazyToSpaceOrEnd(s, p2)
    IN  [ok |-> e1 # NoMatch,
         old_path |-> IF e1 = NoMatch THEN <<>> ELSE SubSeq(s, p1, e1 - 1),
         new_path |-> IF e1 = NoMatch THEN <<>> ELSE SubSeq(s, p2, e2 - 1)]

\* binary_pattern.match(line): Binary files a/(.+?) and b/(.+?) differ
BinaryMatch(s) ==
    LET p1 == Lit(s, 1, S_BinaryFiles)
        EndOfNew(p) ==
            IF p = NoMatch THEN NoMatch
            ELSE MinPos({e \in (p + 1)..(Len(s) + 1) :
                            Lit(s, e, S_Differ) # NoMatch})
        e1 == IF p1 = NoMatch THEN NoMatch
              ELSE MinPos({e \in (p1 + 1)..(Len(s) + 1) :
                      EndOfNew(Lit(s, e, S_AndB)) # NoMatch})
        p2 == Lit(s, e1, S_AndB)
        e2 == EndOfNew(p2)
    IN  [ok |-> e1 # NoMatch,
         old_path |-> IF e1 = NoMatch THEN <<>> ELSE SubSeq(s, p1, e1 - 1),
         new_path |-> IF e1 = NoMatch THEN <<>> ELSE SubSeq(s, p2, e2 - 1)]

\* new_path if new_path != '/dev/null' else old_path
ResolveKey(old_path, new_path) ==
    IF new_path # DevNull THEN new_path ELSE old_path

\* current_file taken as true whatever it holds
FileOpen_always(f) == TRUE

\* truth value of current_file: None and '' are false
FileOpen(f) == f # NoFile /\ f # <<>>

\* dict operations; the dict is a sequence of <<key, value>> in insertion
\* order, and assigning to a present key keeps its position
HasKey(d, k) == \E j \in 1..Len(d) : d[j][1] = k

Lookup(d, k) == d[CHOOSE j \in 1..Len(d) : d[j][1] = k][2]

\* an assignment that leaves a present key alone
DictSet_keepfirst(d, k, v) ==
    IF HasKey(d, k) THEN d ELSE Append(d, <<k, v>>)

DictSet(d, k, v) ==
    IF HasKey(d, k)
    THEN [j \in 1..Len(d) |-> IF d[j][1] = k THEN <<k, v>> ELSE d[j]]
    ELSE Append(d, <<k, v>>)

Keys(d) == {d[j][1] : j \in 1..Len(d)}

\* a seal that strips the joined text
Sealed_strip(d, f, buf) ==
    IF FileOpen(f) /\ Len(buf) > 0 THEN DictSet(d, f, Strip(Join(buf))) ELSE d

\* a seal that removes a present key and inserts it again at the end
Sealed_reinsert(d, f, buf) ==
    IF FileOpen(f) /\ Len(buf) > 0
    THEN Append(SelectSeq(d, LAMBDA e : e[1] # f), <<f, Join(buf)>>)
    ELSE d

\* `if current_file and current_diff: files[current_file] = '\n'.join(...)`
Sealed(d, f, buf) ==
    IF FileOpen(f) /\ Len(buf) > 0 THEN DictSet(d, f, Join(buf)) ELSE d

\* lines 18-29: the locals are set up and the text is split into lines
PrEnter ==
    /\ pr_pc = "call"
    /\ files' = <<>>
    /\ current_file' = NoFile
    /\ current_diff' = <<>>
    /\ pr_lines' = Split(diff_text)
    /\ i' = 0
    /\ pr_pc' = "loop"
    /\ UNCHANGED <<patch_src, diff_text>>
    /\ UNCHANGED hdr_vars
    /\ UNCHANGED retry_vars
    /\ UNCHANGED hunk_vars
    /\ UNCHANGED path_vars
    /\ UNCHANGED file_vars

\* the diff header branch without the store of the open fragment
PrDiffHeader_noseal ==
    /\ pr_pc = "loop"
    /\ i < Len(pr_lines)
    /\ LET line == pr_lines[i + 1]
           m == DiffMatch(line)
       IN  /\ m.ok
           /\ current_file' = ResolveKey(m.old_path, m.new_path)
           /\ current_diff' = <<line>>
    /\ i' = i + 1
    /\ UNCHANGED <<patch_src, diff_text, pr_pc, pr_lines, files>>
    /\ UNCHANGED hdr_vars
    /\ UNCHANGED retry_vars
    /\ UNCHANGED hunk_vars
    /\ UNCHANGED path_vars
    /\ UNCHANGED file_vars

\* `if diff_match:` the open fragment is sealed and a new one is opened
PrDiffHeader ==
    /\ pr_pc = "loop"
    /\ i < Len(pr_lines)
    /\ LET line == pr_lines[i + 1]
           m == DiffMatch(line)
       IN  /\ m.ok
           /\ files' = Sealed(files, current_file, current_diff)
           /\ current_file' = ResolveKey(m.old_path, m.new_path)
           /\ current_diff' = <<line>>
    /\ i' = i + 1
    /\ UNCHANGED <<patch_src, diff_text, pr_pc, pr_lines>>
    /\ UNCHANGED hdr_vars
    /\ UNCHANGED retry_vars
    /\ UNCHANGED hunk_vars
    /\ UNCHANGED path_vars
    /\ UNCHANGED file_vars

\* the binary branch leaving its fragment open
PrBinary_open ==
    /\ pr_pc = "loop"
    /\ i < Len(pr_lines)
    /\ LET line == pr_lines[i + 1]
           m == BinaryMatch(line)
       IN  /\ ~DiffMatch(line).ok
           /\ m.ok
           /\ files' = DictSet(Sealed(files, current_file, current_diff),
                               ResolveKey(m.old_path, m.new_path),
                               Join(<<line, S_BinaryFile>>))
           /\ current_file' = ResolveKey(m.old_path, m.new_path)
           /\ current_diff' = <<line, S_BinaryFile>>
    /\ i' = i + 1
    /\ UNCHANGED <<patch_src, diff_text, pr_pc, pr_lines>>
    /\ UNCHANGED hdr_vars
    /\ UNCHANGED retry_vars
    /\ UNCHANGED hunk_vars
    /\ UNCHANGED path_vars
    /\ UNCHANGED file_vars

\* the binary fragment added to the text already stored under its key
PrBinary_append ==
    /\ pr_pc = "loop"
    /\ i < Len(pr_lines)
    /\ LET line == pr_lines[i + 1]
           m == BinaryMatch(line)
           key == ResolveKey(m.old_path, m.new_path)
           sealed == Sealed(files, current_file, current_diff)
       IN  /\ ~DiffMatch(line).ok
           /\ m.ok
           /\ files' = DictSet(sealed, key,
                               IF HasKey(sealed, key)
                               THEN Join(<<Lookup(sealed, key), line,
                                           S_BinaryFile>>)
                               ELSE Join(<<line, S_BinaryFile>>))
    /\ current_file' = NoFile
    /\ current_diff' = <<>>
    /\ i' = i + 1
    /\ UNCHANGED <<patch_src, diff_text, pr_pc, pr_lines>>
    /\ UNCHANGED hdr_vars
    /\ UNCHANGED retry_vars
    /\ UNCHANGED hunk_vars
    /\ UNCHANGED path_vars
    /\ UNCHANGED file_vars

\* `if binary_match:` the open fragment is sealed, the binary fragment is
\* stored at once and no fragment stays open
PrBinary ==
    /\ pr_pc = "loop"
    /\ i < Len(pr_lines)
    /\ LET line == pr_lines[i + 1]
           m == BinaryMatch(line)
       IN  /\ ~DiffMatch(line).ok
           /\ m.ok
           /\ files' = DictSet(Sealed(files, current_file, current_diff),
                               ResolveKey(m.old_path, m.new_path),
                               Join(<<line, S_BinaryFile>>))
    /\ current_file' = NoFile
    /\ current_diff' = <<>>
    /\ i' = i + 1
    /\ UNCHANGED <<patch_src, diff_text, pr_pc, pr_lines>>
    /\ UNCHANGED hdr_vars
    /\ UNCHANGED retry_vars
    /\ UNCHANGED hunk_vars
    /\ UNCHANGED path_vars
    /\ UNCHANGED file_vars

\* the collect branch without the append
PrCollect_drop ==
    /\ pr_pc = "loop"
    /\ i < Len(pr_lines)
    /\ ~DiffMatch(pr_lines[i + 1]).ok
    /\ ~BinaryMatch(pr_lines[i + 1]).ok
    /\ FileOpen(current_file)
    /\ i' = i + 1
    /\ UNCHANGED <<patch_src, diff_text, pr_pc, pr_lines, files, current_file,
                   current_diff>>
    /\ UNCHANGED hdr_vars
    /\ UNCHANGED retry_vars
    /\ UNCHANGED hunk_vars
    /\ UNCHANGED path_vars
    /\ UNCHANGED file_vars

\* `if current_file: current_diff.append(line)`
PrCollect ==
    /\ pr_pc = "loop"
    /\ i < Len(pr_lines)
    /\ ~DiffMatch(pr_lines[i + 1]).ok
    /\ ~BinaryMatch(pr_lines[i + 1]).ok
    /\ FileOpen(current_file)
    /\ current_diff' = Append(current_diff, pr_lines[i + 1])
    /\ i' = i + 1
    /\ UNCHANGED <<patch_src, diff_text, pr_pc, pr_lines, files, current_file>>
    /\ UNCHANGED hdr_vars
    /\ UNCHANGED retry_vars
    /\ UNCHANGED hunk_vars
    /\ UNCHANGED path_vars
    /\ UNCHANGED file_vars

\* a line read while no fragment is open: only `i += 1`
PrDiscard ==
    /\ pr_pc = "loop"
    /\ i < Len(pr_lines)
    /\ ~DiffMatch(pr_lines[i + 1]).ok
    /\ ~BinaryMatch(pr_lines[i + 1]).ok
    /\ ~FileOpen(current_file)
    /\ i' = i + 1
    /\ UNCHANGED <<patch_src, diff_text, pr_pc, pr_lines, files, current_file,
                   current_diff>>
    /\ UNCHANGED hdr_vars
    /\ UNCHANGED retry_vars
    /\ UNCHANGED hunk_vars
    /\ UNCHANGED path_vars
    /\ UNCHANGED file_vars

\* the end of the loop with the final store left out
PrFinish_noseal ==
    /\ pr_pc = "loop"
    /\ i >= Len(pr_lines)
    /\ pr_pc' = "done"
    /\ UNCHANGED <<patch_src, diff_text, pr_lines, i, files, current_file,
                   current_diff>>
    /\ UNCHANGED hdr_vars
    /\ UNCHANGED retry_vars
    /\ UNCHANGED hunk_vars
    /\ UNCHANGED path_vars
    /\ UNCHANGED file_vars

\* lines 67-71: the loop has ended, the open fragment is stored, files is
\* returned
PrFinish ==
    /\ pr_pc = "loop"
    /\ i >= Len(pr_lines)
    /\ files' = Sealed(files, current_file, current_diff)
    /\ pr_pc' = "done"
    /\ UNCHANGED <<patch_src, diff_text, pr_lines, i, current_file,
                   current_diff>>
    /\ UNCHANGED hdr_vars
    /\ UNCHANGED retry_vars
    /\ UNCHANGED hunk_vars
    /\ UNCHANGED path_vars
    /\ UNCHANGED file_vars

-----------------------------------------------------------------------------
(* Patch texts under test: a sequence of lines, each a `diff --git` header *)
(* written from an old and a new path, a `Binary files` line, or other text*)

MaxPatchLines == 4

P_o == <<"o">>

P_n == <<"n">>

P_mf == <<"m", " ", "f">>

\* the sentinel /dev/null as the header shows it after `b/`
S_DevNullShown == <<"d", "e", "v", "/", "n", "u", "l", "l">>

PatchLineSources ==
    {[kind |-> "diff", old |-> P_o, new |-> P_n, shown |-> P_n],
     [kind |-> "diff", old |-> P_n, new |-> P_n, shown |-> P_n],
     [kind |-> "diff", old |-> P_mf, new |-> P_mf, shown |-> P_mf],
     [kind |-> "diff", old |-> P_o, new |-> DevNull, shown |-> S_DevNullShown],
     [kind |-> "diff", old |-> P_o, new |-> DevNull, shown |-> DevNull],
     [kind |-> "bin", old |-> P_n, new |-> P_n, shown |-> P_n],
     [kind |-> "other", old |-> <<>>, new |-> <<>>, shown |-> <<"+", "x">>],
     [kind |-> "other", old |-> <<>>, new |-> <<>>, shown |-> <<>>]}

RenderPatchLine(src) ==
    CASE src.kind = "diff" -> S_DiffGit \o src.old \o S_B \o src.shown
      [] src.kind = "bin" ->
            S_BinaryFiles \o src.old \o S_AndB \o src.shown \o S_Differ
      [] src.kind = "other" -> src.shown

RenderPatch(srcs) == Join([k \in 1..Len(srcs) |-> RenderPatchLine(srcs[k])])

-----------------------------------------------------------------------------
(* Specification of parse_pr_diff                                          *)

InitPr ==
    /\ \E srcs \in SeqsUpTo(PatchLineSources, MaxPatchLines) :
          /\ patch_src = srcs
          /\ diff_text = RenderPatch(srcs)
    /\ pr_pc = "call"
    /\ pr_lines = <<>>
    /\ i = 0
    /\ files = <<>>
    /\ current_file = NoFile
    /\ current_diff = <<>>
    /\ HdrIdle
    /\ RetryIdle
    /\ HunkIdle
    /\ PathIdle
    /\ FileIdle

NextPr ==
    \/ PrEnter
    \/ PrDiffHeader
    \/ PrBinary
    \/ PrCollect
    \/ PrDiscard
    \/ PrFinish

SpecPr == InitPr /\ [][NextPr]_vars

\* the key the specification gives a header: new_path, or old_path when
\* new_path is the deletion sentinel
SpecKey(src) == IF src.new = DevNull THEN src.old ELSE src.new

IsHeader(src) == src.kind \in {"diff", "bin"}

\* C8: a fragment opened by `diff --git a/<old_path> b/<new_path>` whose new
\* path is not the deletion sentinel is stored under new_path, and old_path
\* is not a key because of that header.
C8_RenameKey ==
    pr_pc = "done" =>
        \A k \in 1..Len(patch_src) :
            (patch_src[k].kind = "diff" /\ patch_src[k].new # DevNull) =>
                /\ HasKey(files, patch_src[k].new)
                /\ (/\ patch_src[k].old # patch_src[k].new
                    /\ HasKey(files, patch_src[k].old))
                      => \E j \in 1..Len(patch_src) :
                            /\ j # k
                            /\ IsHeader(patch_src[j])
                            /\ SpecKey(patch_src[j]) = patch_src[k].old

\* C9: a fragment whose header is `diff --git a/<old_path> b/dev/null` is
\* stored under old_path, and the sentinel never appears as a key.
C9_DeletionKey ==
    pr_pc = "done" =>
        /\ \A k \in 1..Len(patch_src) :
              (/\ patch_src[k].kind = "diff"
               /\ patch_src[k].shown = S_DevNullShown)
                  => HasKey(files, patch_src[k].old)
        /\ ~HasKey(files, S_DevNullShown)
        /\ ~HasKey(files, DevNull)

\* the key the scan resolves for a header line
ScanKey(line) ==
    IF DiffMatch(line).ok
    THEN ResolveKey(DiffMatch(line).old_path, DiffMatch(line).new_path)
    ELSE ResolveKey(BinaryMatch(line).old_path, BinaryMatch(line).new_path)

\* the position of the last header of the patch, 0 when there is none
LastHeader(srcs) ==
    IF \E k \in 1..Len(srcs) : IsHeader(srcs[k])
    THEN CHOOSE k \in 1..Len(srcs) :
            /\ IsHeader(srcs[k])
            /\ \A j \in (k + 1)..Len(srcs) : ~IsHeader(srcs[j])
    ELSE 0

\* C10: after the scan the mapping has an entry for the resolved key of
\* every `diff --git` and every `Binary files` header, the last included,
\* and a fragment still open at end of input is stored with all the lines
\* read since its header.
C10_NoFragmentDropped ==
    pr_pc = "done" =>
        /\ \A k \in 1..Len(patch_src) :
              IsHeader(patch_src[k])
                 => HasKey(files, ScanKey(RenderPatchLine(patch_src[k])))
        /\ LET h == LastHeader(patch_src)
           IN  (h # 0 /\ patch_src[h].kind = "diff") =>
                  Lookup(files, ScanKey(RenderPatchLine(patch_src[h])))
                     = RenderPatch(SubSeq(patch_src, h, Len(patch_src)))

\* a patch of two fragments whose last fragment, still open at end of
\* input, has been stored with the lines after its header
C10_Witness ==
    /\ pr_pc = "done"
    /\ Len(patch_src) = 4
    /\ patch_src[1].kind = "diff"
    /\ patch_src[2].kind = "other"
    /\ patch_src[3].kind = "diff"
    /\ patch_src[4].kind = "other"
    /\ Len(files) = 2
    /\ files[2][2] = RenderPatch(SubSeq(patch_src, 3, 4))

-----------------------------------------------------------------------------
(* Fragments of a patch, read off the lines it was written from            *)

\* the text of line k of the patch
PatchLine(k) == RenderPatchLine(patch_src[k])

\* the key the scan resolves for the header at line h
HeaderKey(h) == ScanKey(PatchLine(h))

\* the positions of the headers
HeaderPositions == {h \in 1..Len(patch_src) : IsHeader(patch_src[h])}

\* the last header at or before line k, 0 when line k is preamble
Governing(k) ==
    IF \E h \in HeaderPositions : h <= k
    THEN CHOOSE h \in HeaderPositions :
            h <= k /\ \A g \in HeaderPositions : g <= k => g <= h
    ELSE 0

\* the first header after line h, Len + 1 when h is the last header
FollowingHeader(h) ==
    IF \E g \in HeaderPositions : g > h
    THEN CHOOSE g \in HeaderPositions :
            g > h /\ \A f \in HeaderPositions : f > h => g <= f
    ELSE Len(patch_src) + 1

\* what the header at line h puts in the mapping
Fragment(h) ==
    IF patch_src[h].kind = "bin"
    THEN Join(<<PatchLine(h), S_BinaryFile>>)
    ELSE RenderPatch(SubSeq(patch_src, h, FollowingHeader(h) - 1))

\* no later header resolves to the key of header h
Survives(h) == \A g \in HeaderPositions : g > h => HeaderKey(g) # HeaderKey(h)

\* the number of lines in all the values of the mapping
RECURSIVE TotalLines(_)
TotalLines(d) ==
    IF Len(d) = 0 THEN 0 ELSE Len(Split(Head(d)[2])) + TotalLines(Tail(d))

\* the lines of all the values of the mapping
FragmentLines(d) ==
    UNION {{Split(d[j][2])[n] : n \in 1..Len(Split(d[j][2]))} : j \in 1..Len(d)}

\* C11 as stated: every line that comes after the first file header appears
\* in exactly one fragment of the mapping, none dropped, none duplicated.
C11_Partition ==
    (pr_pc = "done" /\ HeaderPositions # {}) =>
        LET first == CHOOSE h \in HeaderPositions :
                        \A g \in HeaderPositions : h <= g
        IN  /\ \A k \in first..Len(patch_src) :
                  PatchLine(k) \in FragmentLines(files)
            /\ TotalLines(files) = Len(patch_src) - first + 1

\* C11 amended: every line read while a `diff --git` fragment is open (from
\* its header up to the next header) is in the fragment of that header, at
\* its place, provided no later header resolves to the same key; the
\* mapping holds no other line than those and the two lines stored for each
\* surviving `Binary files` header.
C11_OpenFragmentPartition ==
    pr_pc = "done" =>
        /\ \A k \in 1..Len(patch_src) :
              LET h == Governing(k)
              IN  (h # 0 /\ patch_src[h].kind = "diff" /\ Survives(h)) =>
                     /\ HasKey(files, HeaderKey(h))
                     /\ Len(Split(Lookup(files, HeaderKey(h)))) >= k - h + 1
                     /\ Split(Lookup(files, HeaderKey(h)))[k - h + 1]
                           = PatchLine(k)
        /\ TotalLines(files) =
              Cardinality({k \in 1..Len(patch_src) :
                              /\ Governing(k) # 0
                              /\ patch_src[Governing(k)].kind = "diff"
                              /\ Survives(Governing(k))})
              + 2 * Cardinality({h \in HeaderPositions :
                                    patch_src[h].kind = "bin" /\ Survives(h)})

\* a patch with preamble, an open fragment of three lines and nothing else
C11_Witness ==
    /\ pr_pc = "done"
    /\ Len(patch_src) = 4
    /\ patch_src[1].kind = "other"
    /\ patch_src[2].kind = "diff"
    /\ patch_src[3].kind = "other"
    /\ patch_src[4].kind = "other"
    /\ Len(files) = 1
    /\ TotalLines(files) = 3

\* the patch has exactly two `diff --git` headers and no `Binary files` line
TwoDiffHeaders ==
    /\ Cardinality(HeaderPositions) = 2
    /\ \A h \in HeaderPositions : patch_src[h].kind = "diff"

\* the two fragments, each from its header up to the next header or the end
TwoFragments ==
    LET h1 == CHOOSE h \in HeaderPositions : \A g \in HeaderPositions : h <= g
        h2 == CHOOSE h \in HeaderPositions : \A g \in HeaderPositions : g <= h
    IN  /\ Len(files) = 2
        /\ files[1][2] = RenderPatch(SubSeq(patch_src, h1, h2 - 1))
        /\ files[2][2] = RenderPatch(SubSeq(patch_src, h2, Len(patch_src)))

\* C12 as stated: every patch with exactly two `diff --git` headers and no
\* `Binary files` line gives exactly two fragments, each holding its header
\* line and the lines up to the next header or the end of input.
C12_TwoFragments ==
    (pr_pc = "done" /\ TwoDiffHeaders) => TwoFragments

\* C12 amended: the same, for two headers that resolve to different keys.
C12_TwoFragmentsDistinctKeys ==
    (/\ pr_pc = "done"
     /\ TwoDiffHeaders
     /\ \A g, h \in HeaderPositions : g # h => HeaderKey(g) # HeaderKey(h))
        => TwoFragments

\* two headers with different keys, each followed by a line
C12_Witness ==
    /\ pr_pc = "done"
    /\ Len(patch_src) = 4
    /\ patch_src[1].kind = "diff"
    /\ patch_src[2].kind = "other"
    /\ patch_src[3].kind = "diff"
    /\ patch_src[4].kind = "other"
    /\ HeaderKey(1) # HeaderKey(3)
    /\ TwoFragments

\* C13 as stated: a `Binary files` line is stored under its key at the moment
\* it is read with a fixed marker as its diff text, and leaves no fragment
\* open, so the lines after it up to the next header are discarded.
C13_BinaryFixedMarker ==
    [][(pr_pc = "loop" /\ i < Len(patch_src) /\ i' = i + 1) =>
          /\ patch_src[i + 1].kind = "bin" =>
                /\ HasKey(files', patch_src[i + 1].new)
                /\ Lookup(files', patch_src[i + 1].new) = S_BinaryFile
                /\ current_file' = NoFile
                /\ current_diff' = <<>>
          /\ (/\ patch_src[i + 1].kind = "other"
              /\ Governing(i + 1) # 0
              /\ patch_src[Governing(i + 1)].kind = "bin") =>
                /\ files' = files
                /\ current_file' = NoFile
                /\ current_diff' = <<>>]_vars

\* C13 amended: a `Binary files a/<old> and b/<new> differ` line is stored under its
\* key at the moment it is read, as the line followed by the fixed marker
\* `Binary file`, and leaves no fragment open; every line after it, up to the
\* next header, changes neither the mapping nor the buffer: it is discarded.
C13_BinaryOneLine ==
    [][(pr_pc = "loop" /\ i < Len(patch_src) /\ i' = i + 1) =>
          /\ patch_src[i + 1].kind = "bin" =>
                /\ HasKey(files', patch_src[i + 1].new)
                /\ Lookup(files', patch_src[i + 1].new)
                      = Join(<<PatchLine(i + 1), S_BinaryFile>>)
                /\ current_file' = NoFile
                /\ current_diff' = <<>>
          /\ (/\ patch_src[i + 1].kind = "other"
              /\ Governing(i + 1) # 0
              /\ patch_src[Governing(i + 1)].kind = "bin") =>
                /\ files' = files
                /\ current_file' = NoFile
                /\ current_diff' = <<>>]_vars

\* a Binary line followed by two lines that are in no fragment
C13_Witness ==
    /\ pr_pc = "done"
    /\ Len(patch_src) = 3
    /\ patch_src[1].kind = "bin"
    /\ patch_src[2].shown = <<"+", "x">>
    /\ patch_src[3].shown = <<"+", "x">>
    /\ Len(files) = 1
    /\ files[1] = <<P_n, Join(<<PatchLine(1), S_BinaryFile>>)>>

\* C19: a line that comes before the first header changes nothing (no
\* fragment, no key); a text with no header at all gives an empty mapping.
C19_PreambleDiscarded ==
    [][/\ (/\ pr_pc = "loop"
           /\ i < Len(patch_src)
           /\ i' = i + 1
           /\ Governing(i + 1) = 0) =>
              /\ files' = <<>>
              /\ files' = files
              /\ current_file' = NoFile
              /\ current_diff' = <<>>
       /\ (pr_pc' = "done" /\ HeaderPositions = {}) => files' = <<>>]_vars

\* two preamble lines, then one fragment that holds none of them
C19_Witness ==
    /\ pr_pc = "done"
    /\ Len(patch_src) = 3
    /\ patch_src[1].shown = <<"+", "x">>
    /\ patch_src[2].shown = <<"+", "x">>
    /\ patch_src[3].kind = "diff"
    /\ Len(files) = 1
    /\ files[1][2] = PatchLine(3)

\* C20: when two headers resolve to the same key, the mapping has a single
\* entry for that key, its value is the fragment of the later header, and
\* the lines of the earlier fragment are not in the output.
C20_LastWriteWins ==
    pr_pc = "done" =>
        \A g, h \in HeaderPositions :
            (g < h /\ HeaderKey(g) = HeaderKey(h) /\ Survives(h)) =>
                /\ Cardinality({j \in 1..Len(files) :
                                   files[j][1] = HeaderKey(h)}) = 1
                /\ Lookup(files, HeaderKey(h)) = Fragment(h)
                /\ TotalLines(files) =
                      Cardinality({k \in 1..Len(patch_src) :
                                      /\ Governing(k) # 0
                                      /\ patch_src[Governing(k)].kind = "diff"
                                      /\ Survives(Governing(k))})
                      + 2 * Cardinality({f \in HeaderPositions :
                                            /\ patch_src[f].kind = "bin"
                                            /\ Survives(f)})

\* two fragments of different content under one key: the later one is kept
C20_Witness ==
    /\ pr_pc = "done"
    /\ Len(patch_src) = 3
    /\ patch_src[1].kind = "diff"
    /\ patch_src[2].shown = <<"+", "x">>
    /\ patch_src[3].kind = "diff"
    /\ HeaderKey(1) = HeaderKey(3)
    /\ PatchLine(1) # PatchLine(3)
    /\ files = <<<<HeaderKey(3), PatchLine(3)>>>>

-----------------------------------------------------------------------------
(* extract_file_path                                                       *)

S_Plus3 == <<"+", "+", "+">>

S_BSlash == <<"b", "/">>

S_Unknown == <<"u", "n", "k", "n", "o", "w", "n">>

\* s.split('\t')[0]: the text before the first tab
BeforeTab(s) ==
    LET tabs == {p \in 1..Len(s) : s[p] = "\t"}
    IN  IF tabs = {} THEN s ELSE SubSeq(s, 1, MinPos(tabs) - 1)

\* extract_file_path keeping the tab-separated metadata
extract_file_path_notab(line) ==
    IF ~StartsWith(line, S_Plus3) THEN S_Unknown
    ELSE LET path == From(line, 5)
         IN  IF StartsWith(path, S_BSlash) THEN From(path, 3) ELSE path

extract_file_path(line) ==
    IF ~StartsWith(line, S_Plus3) THEN S_Unknown
    ELSE LET path == BeforeTab(From(line, 5))
         IN  IF StartsWith(path, S_BSlash) THEN From(path, 3) ELSE path

\* path header lines under test: a prefix, `b/` markers, a path, metadata
PathPrefixes ==
    {<<"+", "+", "+", " ">>, <<"-", "-", "-", " ">>, <<"+", "+", "+">>, <<"+", "+", " ">>, <<>>}

MaxMarks == 2

PathNames == {<<"x">>, <<"a", "/", "x">>, <<"m", " ", "f">>, DevNull}

PathMetas == {<<>>, <<"\t", "2", "0", "2", "4">>, <<"\t", "1", "\t", "2">>}

PathSources ==
    [prefix : PathPrefixes, marks : 0..MaxMarks, path : PathNames,
     meta : PathMetas]

RECURSIVE Marks(_)
Marks(n) == IF n = 0 THEN <<>> ELSE S_BSlash \o Marks(n - 1)

RenderPathLine(src) == src.prefix \o Marks(src.marks) \o src.path \o src.meta

InitPath ==
    /\ \E src \in PathSources :
          /\ path_src = src
          /\ path_line = RenderPathLine(src)
    /\ path_pc = "call"
    /\ path_result = <<>>
    /\ HdrIdle
    /\ RetryIdle
    /\ HunkIdle
    /\ PrIdle
    /\ FileIdle

\* the call of extract_file_path(header_line)
ExtractFilePath ==
    /\ path_pc = "call"
    /\ path_result' = extract_file_path(path_line)
    /\ path_pc' = "done"
    /\ UNCHANGED <<path_src, path_line>>
    /\ UNCHANGED hdr_vars
    /\ UNCHANGED retry_vars
    /\ UNCHANGED hunk_vars
    /\ UNCHANGED pr_vars
    /\ UNCHANGED file_vars

NextPath == ExtractFilePath

SpecPath == InitPath /\ [][NextPath]_vars

-----------------------------------------------------------------------------
(* parse_single_hunk as a function, and parse_unified_diff                 *)

\* the loop `for line in lines[1:]` from line k on, cur being current_line
RECURSIVE WalkBody(_, _, _)
WalkBody(ls, k, cur) ==
    IF k > Len(ls) THEN <<>>
    ELSE IF ls[k] = <<>> THEN WalkBody(ls, k + 1, cur)
    ELSE IF StartsWith(ls[k], <<"+">>)
         THEN <<DiffLine(cur, From(ls[k], 2), "added")>>
                 \o WalkBody(ls, k + 1, cur + 1)
    ELSE IF StartsWith(ls[k], <<"-">>)
         THEN <<DiffLine(0, From(ls[k], 2), "removed")>>
                 \o WalkBody(ls, k + 1, cur)
    ELSE IF StartsWith(ls[k], <<" ">>)
         THEN <<DiffLine(cur, From(ls[k], 2), "context")>>
                 \o WalkBody(ls, k + 1, cur + 1)
    ELSE WalkBody(ls, k + 1, cur)

parse_single_hunk(text) ==
    LET ls == HunkLines(text)
    IN  IF ~HasHunkHeader(ls) THEN DiffHunk(1, 1, <<>>)
        ELSE DiffHunk(parse_hunk_header(ls[1])[1], parse_hunk_header(ls[1])[2],
                      WalkBody(ls, 2, parse_hunk_header(ls[1])[2]))

FileDiff(p, hs, n, d) ==
    [file_path |-> p, hunks |-> hs, is_new |-> n, is_deleted |-> d]

S_NewFileMode == <<"n", "e", "w", " ", "f", "i", "l", "e", " ", "m", "o", "d", "e">>

S_DeletedFileMode == <<"d", "e", "l", "e", "t", "e", "d", " ", "f", "i", "l", "e", " ", "m", "o", "d", "e">>

S_AtAt == <<"@", "@">>

\* `lit in s`
Contains(s, lit) == \E p \in 1..Len(s) : HasAt(s, p, lit)

\* lines 113-117: the path of the first line that starts with `+++`
FirstPath(ls) ==
    LET ps == {k \in 1..Len(ls) : StartsWith(ls[k], S_Plus3)}
    IN  IF ps = {} THEN S_Unknown ELSE extract_file_path(ls[MinPos(ps)])

\* any(marker in line for line in lines)
AnyLineContains(ls, marker) == \E k \in 1..Len(ls) : Contains(ls[k], marker)

\* line 134: the first index after k whose line starts with `@@`, else len
HunkEnd(ls, k) ==
    LET ps == {e \in (k + 1)..Len(ls) : StartsWith(ls[e], S_AtAt)}
    IN  IF ps = {} THEN Len(ls) + 1 ELSE MinPos(ps)

\* the hunk loop with a break after the first hunk
RECURSIVE ScanHunks_break(_, _)
ScanHunks_break(ls, k) ==
    IF k > Len(ls) THEN <<>>
    ELSE IF StartsWith(ls[k], S_AtAt)
         THEN <<parse_single_hunk(Join(SubSeq(ls, k, HunkEnd(ls, k) - 1)))>>
    ELSE ScanHunks_break(ls, k + 1)

\* lines 124-143: the while loop from index k on
RECURSIVE ScanHunks(_, _)
ScanHunks(ls, k) ==
    IF k > Len(ls) THEN <<>>
    ELSE IF StartsWith(ls[k], S_AtAt)
         THEN <<parse_single_hunk(Join(SubSeq(ls, k, HunkEnd(ls, k) - 1)))>>
                 \o ScanHunks(ls, HunkEnd(ls, k))
    ELSE ScanHunks(ls, k + 1)

parse_unified_diff(text) ==
    LET ls == Split(text)
    IN  FileDiff(FirstPath(ls), ScanHunks(ls, 1),
                 AnyLineContains(ls, S_NewFileMode),
                 AnyLineContains(ls, S_DeletedFileMode))

-----------------------------------------------------------------------------
(* File diffs under test: a sequence of lines                              *)

MaxFileLines == 4

FileLineSources ==
    {[kind |-> "newmode", text |-> <<"n", "e", "w", " ", "f", "i", "l", "e", " ", "m", "o", "d", "e", " ", "1">>],
     [kind |-> "delmode", text |-> <<"d", "e", "l", "e", "t", "e", "d", " ", "f", "i", "l", "e", " ", "m", "o", "d", "e", " ", "1">>],
     [kind |-> "path", text |-> <<"+", "+", "+", " ", "b", "/", "x">>],
     [kind |-> "hunk", text |-> <<"@", "@", " ", "-", "1", " ", "+", "1", " ", "@", "@">>],
     [kind |-> "hunk", text |-> <<"@", "@", " ", "-", "5", " ", "+", "7", " ", "@", "@">>],
     [kind |-> "body", text |-> <<"+", "a">>],
     [kind |-> "body", text |-> <<"+", "n", "e", "w", " ", "f", "i", "l", "e", " ", "m", "o", "d", "e">>],
     [kind |-> "binary", text |-> S_BinaryFiles \o P_n \o S_AndB \o P_n \o S_Differ],
     [kind |-> "binmark", text |-> S_BinaryFile]}

RenderFile(srcs) == Join([k \in 1..Len(srcs) |-> srcs[k].text])

InitFile ==
    /\ \E srcs \in SeqsUpTo(FileLineSources, MaxFileLines) :
          /\ file_src = srcs
          /\ file_text = RenderFile(srcs)
    /\ file_pc = "call"
    /\ file_ret = <<>>
    /\ HdrIdle
    /\ RetryIdle
    /\ HunkIdle
    /\ PrIdle
    /\ PathIdle

\* the call of parse_unified_diff(diff_text)
ParseUnifiedDiff ==
    /\ file_pc = "call"
    /\ file_ret' = parse_unified_diff(file_text)
    /\ file_pc' = "done"
    /\ UNCHANGED <<file_src, file_text>>
    /\ UNCHANGED hdr_vars
    /\ UNCHANGED retry_vars
    /\ UNCHANGED hunk_vars
    /\ UNCHANGED pr_vars
    /\ UNCHANGED path_vars

NextFile == ParseUnifiedDiff

SpecFile == InitFile /\ [][NextFile]_vars

-----------------------------------------------------------------------------
(* Claims about parse_unified_diff                                         *)

\* the fragment parse_pr_diff stores for a `Binary files` line (PrBinary)
BinaryFragment(srcs) ==
    /\ Len(srcs) = 2
    /\ srcs[1].kind = "binary"
    /\ srcs[2].kind = "binmark"

\* C14: parsing the fragment stored for a binary file gives a FileDiff with
\* is_binary = true and an empty hunk sequence.
C14_BinaryFlag ==
    (file_pc = "done" /\ BinaryFragment(file_src))
        => /\ "is_binary" \in DOMAIN file_ret
           /\ file_ret.is_binary
           /\ file_ret.hunks = <<>>

\* C15: in every FileDiff that parse_unified_diff returns, is_new and
\* is_deleted are not both true.
C15_NewDeletedExclusive ==
    file_pc = "done" => ~(file_ret.is_new /\ file_ret.is_deleted)

\* the positions of the lines written as hunk headers
HunkPositions(srcs) == {k \in 1..Len(srcs) : srcs[k].kind = "hunk"}

\* the header lines of a file diff: the lines before the first hunk header
HeaderLines(srcs) ==
    IF HunkPositions(srcs) = {} THEN 1..Len(srcs)
    ELSE 1..(MinPos(HunkPositions(srcs)) - 1)

\* C16: is_new is true exactly when a `new file mode` marker line is among
\* the header lines, is_deleted exactly when a `deleted file mode` marker
\* line is; lines after the first `@@` line change neither flag.
C16_FlagsFromHeaderLines ==
    file_pc = "done" =>
        /\ file_ret.is_new
              = (\E k \in HeaderLines(file_src) :
                    Contains(file_src[k].text, S_NewFileMode))
        /\ file_ret.is_deleted
              = (\E k \in HeaderLines(file_src) :
                    Contains(file_src[k].text, S_DeletedFileMode))

\* the i-th smallest element of a set of positions
RECURSIVE Nth(_, _)
Nth(ps, n) == IF n = 1 THEN MinPos(ps) ELSE Nth(ps \ {MinPos(ps)}, n - 1)

\* the raw text of the hunk whose header is line h: up to but excluding the
\* next hunk header, or to the end of the text
HunkSpan(srcs, h) ==
    LET later == {k \in HunkPositions(srcs) : k > h}
        last  == IF later = {} THEN Len(srcs) ELSE MinPos(later) - 1
    IN  Join([k \in 1..(last - h + 1) |-> srcs[h + k - 1].text])

\* C17: parse_unified_diff returns one hunk per line starting with `@@`, in
\* order of appearance, each the parse_single_hunk of the text from that line
\* up to but excluding the next such line or the end of the text; a text
\* with no such line yields no hunk.
C17_OneHunkPerHeader ==
    file_pc = "done" =>
        /\ Len(file_ret.hunks) = Cardinality(HunkPositions(file_src))
        /\ \A n \in 1..Len(file_ret.hunks) :
              file_ret.hunks[n]
                 = parse_single_hunk(
                      HunkSpan(file_src, Nth(HunkPositions(file_src), n)))

C17_Witness ==
    /\ file_pc = "done"
    /\ Cardinality(HunkPositions(file_src)) = 2
    /\ Len(file_ret.hunks) = 2
    /\ file_ret.hunks[1].new_start = 1
    /\ file_ret.hunks[2].new_start = 7
    /\ Len(file_ret.hunks[2].lines) = 1
    /\ file_ret.hunks[2].lines[1].line_number = 7

-----------------------------------------------------------------------------
(* Further claims about parse_pr_diff                                      *)

\* the first header that resolves to key k
FirstHeader(k) == MinPos({h \in HeaderPositions : HeaderKey(h) = k})

\* C23: the keys of the returned mapping are the keys of the headers of the
\* input, and they iterate in the order in which their headers first appear.
C23_KeyOrder ==
    pr_pc = "done" =>
        /\ Keys(files) = {HeaderKey(h) : h \in HeaderPositions}
        /\ Len(files) = Cardinality(Keys(files))
        /\ \A a, b \in 1..Len(files) :
              a < b => FirstHeader(files[a][1]) < FirstHeader(files[b][1])

\* a patch whose first and third header resolve to one key and whose second
\* header resolves to another has been split
C23_Witness ==
    /\ pr_pc = "done"
    /\ {1, 2, 3} \subseteq HeaderPositions
    /\ HeaderKey(1) = HeaderKey(3)
    /\ HeaderKey(1) # HeaderKey(2)
    /\ Len(files) = 2
    /\ files[1][1] = HeaderKey(1)
    /\ files[2][1] = HeaderKey(2)

\* C25: the key taken from a `diff --git a/<old_path> b/<new_path>` header
\* is the complete new_path up to the end of the line, also when the path
\* contains a space.
C25_WholePathKey ==
    [][(/\ pr_pc = "loop"
        /\ i < Len(patch_src)
        /\ i' = i + 1
        /\ patch_src[i + 1].kind = "diff"
        /\ patch_src[i + 1].new # DevNull)
          => current_file' = patch_src[i + 1].new]_vars

\* the values of the mapping in insertion order
Values(d) == [j \in 1..Len(d) |-> d[j][2]]

\* the first line is a `diff --git` header, no line is a `Binary files`
\* line, and no two headers resolve to the same key
SplitsCleanly ==
    /\ Len(patch_src) > 0
    /\ patch_src[1].kind = "diff"
    /\ \A k \in 1..Len(patch_src) : patch_src[k].kind # "bin"
    /\ \A g, h \in HeaderPositions : g # h => HeaderKey(g) # HeaderKey(h)

\* C28: when the first line is a `diff --git` header, no line is a
\* `Binary files` line and all headers resolve to distinct keys, joining the
\* values of the mapping in insertion order with one newline between them
\* gives back the input text.
C28_SplitRoundTrip ==
    (pr_pc = "done" /\ SplitsCleanly) => Join(Values(files)) = diff_text

\* two fragments, the first ending with an empty line, have been joined back
C28_Witness ==
    /\ pr_pc = "done"
    /\ SplitsCleanly
    /\ Len(patch_src) = 4
    /\ patch_src[2].shown = <<>>
    /\ patch_src[3].kind = "diff"
    /\ patch_src[4].shown = <<"+", "x">>
    /\ Len(files) = 2
    /\ Join(Values(files)) = diff_text

\* C29: when the fragment opened by `diff --git a/p b/p` is still open at a
\* `Binary files a/p and b/p differ` line, the mapping then has exactly one
\* entry for p, whose value is the Binary line followed by the line
\* `Binary file`; the `diff --git` line and the lines sealed with it just
\* before appear nowhere in the mapping, and no fragment stays open.
C29_BinaryOverwritesHeader ==
    [][(/\ pr_pc = "loop"
        /\ i < Len(patch_src)
        /\ i' = i + 1
        /\ i >= 1
        /\ patch_src[i + 1].kind = "bin"
        /\ Governing(i) # 0
        /\ patch_src[Governing(i)].kind = "diff"
        /\ HeaderKey(Governing(i)) = HeaderKey(i + 1))
          => /\ Cardinality({j \in 1..Len(files') :
                               files'[j][1] = HeaderKey(i + 1)}) = 1
             /\ Lookup(files', HeaderKey(i + 1))
                   = Join(<<PatchLine(i + 1), S_BinaryFile>>)
             /\ PatchLine(Governing(i)) \notin FragmentLines(files')
             /\ \A j \in 1..Len(files') :
                   files'[j][2]
                      # RenderPatch(SubSeq(patch_src, Governing(i), i))
             /\ current_file' = NoFile]_vars

\* a `diff --git` header and one more line for n, then the Binary line for
\* n: the mapping holds the binary fragment only
C29_Witness ==
    /\ pr_pc = "done"
    /\ Len(patch_src) = 3
    /\ patch_src[1] = [kind |-> "diff", old |-> P_n, new |-> P_n,
                       shown |-> P_n]
    /\ patch_src[2].shown = <<"+", "x">>
    /\ patch_src[3].kind = "bin"
    /\ files = <<<<P_n, Join(<<PatchLine(3), S_BinaryFile>>)>>>>

-----------------------------------------------------------------------------
(* Patches as git writes them: one section per changed file, each parsed   *)
(* by parse_unified_diff after the split                                   *)

MaxGitFiles == 2

GitSections ==
    {[change |-> "modify", old |-> P_o, new |-> P_o],
     [change |-> "modify", old |-> P_n, new |-> P_n],
     [change |-> "rename", old |-> P_o, new |-> P_n],
     [change |-> "renmod", old |-> P_o, new |-> P_n],
     [change |-> "add",    old |-> P_n, new |-> P_n],
     [change |-> "delete", old |-> P_o, new |-> P_o],
     [change |-> "binary", old |-> P_n, new |-> P_n]}

OtherLine(text) ==
    [kind |-> "other", old |-> <<>>, new |-> <<>>, shown |-> text]

S_MinusA == <<"-", "-", "-", " ", "a", "/">>

S_PlusB == <<"+", "+", "+", " ", "b", "/">>

S_MinusNull == <<"-", "-", "-", " ", "/", "d", "e", "v", "/", "n", "u", "l", "l">>

S_PlusNull == <<"+", "+", "+", " ", "/", "d", "e", "v", "/", "n", "u", "l", "l">>

\* the lines git writes for one changed file
SectionLines(sec) ==
    LET hdr == [kind |-> "diff", old |-> sec.old, new |-> sec.new,
                shown |-> sec.new]
    IN  CASE sec.change = "modify" \/ sec.change = "renmod" ->
               <<hdr, OtherLine(S_MinusA \o sec.old),
                 OtherLine(S_PlusB \o sec.new),
                 OtherLine(<<"@", "@", " ", "-", "1", " ", "+", "1", " ", "@", "@">>),
                 OtherLine(<<"-", "c">>), OtherLine(<<"+", "a">>)>>
          [] sec.change = "rename" ->
               <<hdr, OtherLine(<<"r", "e", "n", "a", "m", "e", " ", "f", "r", "o", "m", " ">> \o sec.old),
                 OtherLine(<<"r", "e", "n", "a", "m", "e", " ", "t", "o", " ">> \o sec.new)>>
          [] sec.change = "add" ->
               <<hdr, OtherLine(S_NewFileMode \o <<" ", "1">>),
                 OtherLine(S_MinusNull), OtherLine(S_PlusB \o sec.new),
                 OtherLine(<<"@", "@", " ", "-", "0", ",", "0", " ", "+", "1", " ", "@", "@">>),
                 OtherLine(<<"+", "a">>)>>
          [] sec.change = "delete" ->
               <<hdr, OtherLine(S_DeletedFileMode \o <<" ", "1">>),
                 OtherLine(S_MinusA \o sec.old), OtherLine(S_PlusNull),
                 OtherLine(<<"@", "@", " ", "-", "1", " ", "+", "0", ",", "0", " ", "@", "@">>),
                 OtherLine(<<"-", "c">>)>>
          [] sec.change = "binary" ->
               <<hdr, [kind |-> "bin", old |-> sec.old, new |-> sec.new,
                       shown |-> sec.new]>>

RECURSIVE Flatten(_)
Flatten(secs) ==
    IF secs = <<>> THEN <<>>
    ELSE SectionLines(Head(secs)) \o Flatten(Tail(secs))

\* the mail header lines a patch may start with
GitPreambles == {<<>>, <<OtherLine(<<"F", "r", "o", "m", ":", " ", "a">>)>>}

InitGit ==
    /\ \E pre \in GitPreambles :
          \E secs \in SeqsUpTo(GitSections, MaxGitFiles) \ {<<>>} :
             /\ patch_src = pre \o Flatten(secs)
             /\ diff_text = RenderPatch(pre \o Flatten(secs))
    /\ pr_pc = "call"
    /\ pr_lines = <<>>
    /\ i = 0
    /\ files = <<>>
    /\ current_file = NoFile
    /\ current_diff = <<>>
    /\ file_src = <<>>
    /\ file_text = <<>>
    /\ file_pc = "wait"
    /\ file_ret = <<>>
    /\ HdrIdle
    /\ RetryIdle
    /\ HunkIdle
    /\ PathIdle

\* every fragment of the returned mapping is parsed by parse_unified_diff
ParseFragments ==
    /\ pr_pc = "done"
    /\ file_pc = "wait"
    /\ file_ret' = [j \in 1..Len(files) |-> parse_unified_diff(files[j][2])]
    /\ file_pc' = "parsed"
    /\ UNCHANGED <<file_src, file_text>>
    /\ UNCHANGED hdr_vars
    /\ UNCHANGED retry_vars
    /\ UNCHANGED hunk_vars
    /\ UNCHANGED pr_vars
    /\ UNCHANGED path_vars

NextGit ==
    \/ NextPr
    \/ ParseFragments

SpecGit == InitGit /\ [][NextGit]_vars

\* C26: for every entry (k, text) stored for a `diff --git` header of a
\* patch as git writes it, parse_unified_diff(text).file_path equals k.
C26_PathsAgree ==
    file_pc = "parsed" =>
        \A j \in 1..Len(files) :
            StartsWith(files[j][2], S_DiffGit)
               => file_ret[j].file_path = files[j][1]

-----------------------------------------------------------------------------
(* generate_review_with_retry (retry_handler.py) and                       *)
(* LLMClient.generate_review (llm_client.py)                               *)

MaxRetries == 4

None == <<"None">>

RECURSIVE Pow2(_)
Pow2(n) == IF n = 0 THEN 1 ELSE 2 * Pow2(n - 1)

RetryFunctions == {"generate_review_with_retry", "generate_review"}

\* the openai package the functions are installed with: before 1.0 it has
\* openai.error and no openai.chat, from 1.0 on openai.chat and no
\* openai.error
OpenAiApis == {"v0", "v1"}

\* openai.chat.completions.create can be reached
HasChatApi(api) == api = "v1"

\* the except clauses of the function can be evaluated: those of
\* generate_review_with_retry name openai.error.AuthenticationError first
ExceptClausesResolve(fn, api) ==
    fn = "generate_review_with_retry" => api = "v0"

InitRetry ==
    /\ rt_fn \in RetryFunctions
    /\ rt_api \in OpenAiApis
    /\ max_retries \in 0..MaxRetries
    /\ attempt = 0
    /\ rt_pc = "loop"
    /\ rt_calls = <<>>
    /\ rt_sleeps = <<>>
    /\ rt_ret = <<>>
    /\ HdrIdle
    /\ HunkIdle
    /\ PrIdle
    /\ PathIdle
    /\ FileIdle

RetryFrame ==
    /\ UNCHANGED hdr_vars
    /\ UNCHANGED hunk_vars
    /\ UNCHANGED pr_vars
    /\ UNCHANGED path_vars
    /\ UNCHANGED file_vars

\* the try block completes: the content of the response is returned
RetryCallReturns ==
    /\ rt_pc = "loop"
    /\ attempt < max_retries
    /\ HasChatApi(rt_api)
    /\ rt_calls' = Append(rt_calls, "ok")
    /\ rt_ret' = <<"review">>
    /\ rt_pc' = "returned"
    /\ UNCHANGED <<rt_fn, rt_api, max_retries, attempt, rt_sleeps>>
    /\ RetryFrame

\* the try block raises
RetryCallRaises ==
    /\ rt_pc = "loop"
    /\ attempt < max_retries
    /\ rt_calls' = Append(rt_calls, "raise")
    /\ rt_pc' = "except"
    /\ UNCHANGED <<rt_fn, rt_api, max_retries, attempt, rt_sleeps, rt_ret>>
    /\ RetryFrame

\* evaluating `except openai.error.AuthenticationError` raises
\* AttributeError, which leaves the function
RetryExceptRaises ==
    /\ rt_pc = "except"
    /\ ~ExceptClausesResolve(rt_fn, rt_api)
    /\ rt_pc' = "raised"
    /\ UNCHANGED <<rt_fn, rt_api, max_retries, attempt, rt_calls, rt_sleeps,
                   rt_ret>>
    /\ RetryFrame

\* the exception is caught and `attempt < max_retries - 1`: time.sleep(2 **
\* attempt), then the next attempt
RetrySleep ==
    /\ rt_pc = "except"
    /\ ExceptClausesResolve(rt_fn, rt_api)
    /\ attempt < max_retries - 1
    /\ rt_sleeps' = Append(rt_sleeps, Pow2(attempt))
    /\ attempt' = attempt + 1
    /\ rt_pc' = "loop"
    /\ UNCHANGED <<rt_fn, rt_api, max_retries, rt_calls, rt_ret>>
    /\ RetryFrame

\* the exception of the last attempt is caught: no sleep;
\* generate_review returns None from its else branch,
\* generate_review_with_retry leaves the loop
RetryLastCaught ==
    /\ rt_pc = "except"
    /\ ExceptClausesResolve(rt_fn, rt_api)
    /\ ~(attempt < max_retries - 1)
    /\ attempt' = attempt + 1
    /\ IF rt_fn = "generate_review"
       THEN rt_ret' = None /\ rt_pc' = "returned"
       ELSE rt_ret' = rt_ret /\ rt_pc' = "loop"
    /\ UNCHANGED <<rt_fn, rt_api, max_retries, rt_calls, rt_sleeps>>
    /\ RetryFrame

\* the loop is over: `return None`, or the end of generate_review's body
RetryExhausted ==
    /\ rt_pc = "loop"
    /\ ~(attempt < max_retries)
    /\ rt_ret' = None
    /\ rt_pc' = "returned"
    /\ UNCHANGED <<rt_fn, rt_api, max_retries, attempt, rt_calls, rt_sleeps>>
    /\ RetryFrame

NextRetry ==
    \/ RetryCallReturns
    \/ RetryCallRaises
    \/ RetryExceptRaises
    \/ RetrySleep
    \/ RetryLastCaught
    \/ RetryExhausted

SpecRetry == InitRetry /\ [][NextRetry]_vars

\* the waits between k attempts: 1, 2, 4, ...
Backoff(k) == [n \in 1..(IF k = 0 THEN 0 ELSE k - 1) |-> Pow2(n - 1)]

\* C27: the API is called at most max_retries times; the function returns
\* the first successful response without a further call, and None exactly
\* when every one of the max_retries attempts raised; it waits 2^attempt
\* seconds between two attempts and not after the last.
C27_RetryContract ==
    /\ Len(rt_calls) <= max_retries
    /\ \A k \in 1..(Len(rt_calls) - 1) : rt_calls[k] = "raise"
    /\ rt_pc # "raised"
    /\ rt_pc = "returned" =>
          /\ rt_ret = None <=>
                (Len(rt_calls) = max_retries
                    /\ \A k \in 1..Len(rt_calls) : rt_calls[k] = "raise")
          /\ rt_ret # None => rt_calls[Len(rt_calls)] = "ok"
          /\ rt_sleeps = Backoff(Len(rt_calls))

====
